---- MODULE Spec2Model ----
(***************************************************************************)
(* Two-coil spring nest design (CoilSpringDesign.py, PR20_Primary_Spring.py)*)
(*                                                                         *)
(* Numbers.  The program computes in floating point; the model computes    *)
(* exactly.  Quantities are integers, except the one quotient of error()   *)
(* (line 82), which is an exact rational <<n, d>> in lowest terms, d > 0;  *)
(* d = 0 holds the IEEE results of a division by zero (<<1,0>> = +inf,     *)
(* <<-1,0>> = -inf, <<0,0>> = nan), which is what numpy's float64 yields   *)
(* for the values root() passes to error().                                *)
(*                                                                         *)
(* helicoil (hc) and scipy.optimize.root are libraries outside the         *)
(* repository.  Their return values are inputs of the model: hc is the     *)
(* record of what the helicoil calls return at the iterate x, and the      *)
(* result of root() is drawn from a set of outcomes.                       *)
(***************************************************************************)
EXTENDS Integers, Sequences, FiniteSets, TLC

VARIABLES
    x,          \* the iterate [OD,do,No,L0o,di,Ni,L0i] handed to error / found by root
    hc,         \* what the helicoil calls return at x
    nest,       \* the TwoCoilSetLength instance most recently constructed
    ev,         \* the locals of error(x) at its return, None before a call
    post,       \* the locals of get_solution's post-processing at its return
    sol,        \* the result of the last root() call
    ret,        \* the last return value of get_solution: <<solved, OC_data, IC_data>>
    pc,         \* the position of the running script
    script,     \* which module is run as the script
    nest_data,  \* the module-level configuration dict of the script
    k,          \* the index of the sweep iteration
    files,      \* the files written so far
    stdout,     \* the lines printed so far
    fault,      \* the exception that ended the script, if any
    od,         \* the frame of the last ODerror call
    calls       \* the number of ODerror calls made

vars == <<x, hc, nest, ev, post, sol, ret, pc, script, nest_data, k, files,
          stdout, fault, od, calls>>

None == [kind |-> "None"]

-----------------------------------------------------------------------------
(* Bounds of the model *)

\* free lengths L0o, L0i range over 5..MaxFree
MaxFree == 7
\* the axial rates the library returns range over 0..MaxRate
MaxRate == 2
\* the number of ODerror calls a caller makes
MaxCalls == 2

-----------------------------------------------------------------------------
(* Exact arithmetic for the quotient of line 82 *)

Abs(n) == IF n < 0 THEN -n ELSE n

Sign(n) == IF n < 0 THEN -1 ELSE IF n = 0 THEN 0 ELSE 1

RECURSIVE GCD(_, _)
GCD(a, b) == IF b = 0 THEN a ELSE GCD(b, a % b)

\* n/d in lowest terms; a zero denominator keeps only the sign of n
QNorm(n, d) ==
    IF d = 0 THEN <<Sign(n), 0>>
    ELSE LET g == GCD(Abs(n), Abs(d))
         IN  <<(Sign(d) * n) \div g, Abs(d) \div g>>

QInt(n) == <<n, 1>>

\* a / b in floating point: finite, or inf/nan when b = 0
QDiv(a, b) == QNorm(a, b)

\* p - q, with inf - inf = nan and nan absorbing
QSub(p, q) ==
    IF p[2] # 0 /\ q[2] # 0 THEN QNorm(p[1] * q[2] - q[1] * p[2], p[2] * q[2])
    ELSE IF p[2] = 0 /\ q[2] = 0
         THEN (IF p[1] = 0 \/ q[1] = 0 \/ p[1] = q[1] THEN <<0, 0>> ELSE p)
    ELSE IF p[2] = 0 THEN p
    ELSE <<-q[1], 0>>

QZero == <<0, 1>>

-----------------------------------------------------------------------------
(* TwoCoilSetLength *)

\* __init__: the twelve fields, stored as given
TwoCoilSetLength(nd) ==
    [kind          |-> "TwoCoilSetLength",
     mat           |-> nd.material,
     end_con       |-> nd.end_condition,
     R             |-> nd.axial_rate,
     F             |-> nd.design_load,
     L             |-> nd.design_length,
     coil_gap      |-> nd.radial_coil_gap,
     max_comp      |-> nd.max_compression,
     lo_cycle_amp  |-> nd.lo_cycle_defln_amplitude,
     hi_cycle_amp  |-> nd.hi_cycle_defln_amplitude,
     comp_res      |-> nd.compression_defln_reserve,
     solid_str_res |-> nd.solid_stress_reserve,
     x0            |-> nd.estimated_solution]

\* error, line 55
min_service_len(self) == self.L - self.max_comp

min_length_no_reserve(self) == min_service_len(self)

\* error, line 56
min_length(self) == min_service_len(self) - self.comp_res

\* error, lines 57-58
error_diameters(self, OD, do, di) ==
    LET Do == OD - do
        Di == Do - do - 2 * self.coil_gap - di
    IN  [Do |-> Do, Di |-> Di]

error_preload_swapped(Ro, Ri, L0o, L0i) ==
    IF L0o > L0i
    THEN [Fo1 |-> Ro * (L0o - L0i), Fi1 |-> 0, L1 |-> L0o]
    ELSE [Fo1 |-> 0, Fi1 |-> Ri * (L0i - L0o), L1 |-> L0i]

\* error, lines 72-79: the free-length branch
error_preload(Ro, Ri, L0o, L0i) ==
    IF L0o > L0i
    THEN [Fo1 |-> Ro * (L0o - L0i), Fi1 |-> 0, L1 |-> L0i]
    ELSE [Fo1 |-> 0, Fi1 |-> Ri * (L0i - L0o), L1 |-> L0o]

\* error, lines 53-105: the locals at the return, v among them.
\* v[1..7] are the code's v[0..6].
error(self, xx, h) ==
    LET OD  == xx[1]
        do  == xx[2]
        L0o == xx[4]
        di  == xx[5]
        L0i == xx[7]
        dia == error_diameters(self, OD, do, di)
        minLength_o == h.Lco + h.Sao
        minLength_i == h.Lci + h.Sai
        Ro == h.Ro
        Ri == h.Ri
        pre == error_preload(Ro, Ri, L0o, L0i)
        F2 == self.F - pre.Fo1 - pre.Fi1
        L_at_F == QSub(QInt(pre.L1), QDiv(F2, Ro + Ri))
        solidStrRes_o == h.limit_o - h.solidStr_o
        solidStrRes_i == h.limit_i - h.solidStr_i
        buckling_len == L0i - h.buck_defln
    IN  [kind |-> "error",
         x    |-> xx,
         Do   |-> dia.Do,
         Di   |-> dia.Di,
         Fo1  |-> pre.Fo1,
         Fi1  |-> pre.Fi1,
         L1   |-> pre.L1,
         v    |-> << QInt(Ro + Ri - self.R),
                     QInt(minLength_o - min_length(self)),
                     QInt(minLength_i - min_length(self)),
                     QSub(L_at_F, QInt(self.L)),
                     QInt(solidStrRes_o - self.solid_str_res),
                     QInt(solidStrRes_i - self.solid_str_res),
                     QInt(buckling_len - min_service_len(self)) >>]

\* get_solution, lines 118-119
solution_diameters(self, OD, do, di) ==
    LET Do == OD - do
        Di == Do - do - 2 * self.coil_gap - di
    IN  [Do |-> Do, Di |-> Di]

solution_preload_swapped(Ro, Ri, L0o, L0i) ==
    IF L0o > L0i
    THEN [Fo1 |-> Ro * (L0o - L0i), Fi1 |-> 0, L1 |-> L0o]
    ELSE [Fo1 |-> 0, Fi1 |-> Ri * (L0i - L0o), L1 |-> L0i]

\* get_solution, lines 124-131: the free-length branch, written a second time
solution_preload(Ro, Ri, L0o, L0i) ==
    IF L0o > L0i
    THEN [Fo1 |-> Ro * (L0o - L0i), Fi1 |-> 0, L1 |-> L0i]
    ELSE [Fo1 |-> 0, Fi1 |-> Ri * (L0i - L0o), L1 |-> L0o]

carried_load_reversed(F1, R, L1, L) == F1 + R * (L - L1)

\* get_solution, lines 133-134: the load a coil carries at the design length
carried_load(F1, R, L1, L) == F1 + R * (L1 - L)

\* hc.coil_data: the record of a solved coil, holding what it was built from
\* and the outer diameter OD = D + d the scripts read from it
coil_data(label, d, D, n, F, L, L_min, lo, hi, mat) ==
    [kind |-> "coil_data", label |-> label, d |-> d, D |-> D, n |-> n, F |-> F,
     L |-> L, L_min |-> L_min, lo_cycle_amp |-> lo, hi_cycle_amp |-> hi,
     mat |-> mat, OD |-> D + d]

\* get_solution, lines 116-136: the locals of the post-processing of sol.x
solution_frame(self, sx, h) ==
    LET OD  == sx[1]
        do  == sx[2]
        L0o == sx[4]
        di  == sx[5]
        L0i == sx[7]
        dia == solution_diameters(self, OD, do, di)
        Ro  == h.Ro
        Ri  == h.Ri
        pre == solution_preload(Ro, Ri, L0o, L0i)
    IN  [kind  |-> "solution",
         Do    |-> dia.Do,
         Di    |-> dia.Di,
         Ro    |-> Ro,
         Ri    |-> Ri,
         Fo1   |-> pre.Fo1,
         Fi1   |-> pre.Fi1,
         L1    |-> pre.L1,
         Fo    |-> carried_load(pre.Fo1, Ro, pre.L1, self.L),
         Fi    |-> carried_load(pre.Fi1, Ri, pre.L1, self.L),
         L_min |-> self.L - self.max_comp]

get_solution_swapped(self, s, h) ==
    IF ~s.success THEN <<FALSE, None, s>>
    ELSE LET f == solution_frame(self, s.x, h)
         IN  <<TRUE,
               coil_data("Inner Coil", s.x[5], f.Di, s.x[6], f.Fi, self.L, f.L_min,
                         self.lo_cycle_amp, self.hi_cycle_amp, self.mat),
               coil_data("Outer Coil", s.x[2], f.Do, s.x[3], f.Fo, self.L, f.L_min,
                         self.lo_cycle_amp, self.hi_cycle_amp, self.mat)>>

\* get_solution, lines 113-144, for the result s of root(self.error, self.x0)
get_solution(self, s, h) ==
    IF ~s.success THEN <<FALSE, s, None>>
    ELSE LET f == solution_frame(self, s.x, h)
         IN  <<TRUE,
               coil_data("Outer Coil", s.x[2], f.Do, s.x[3], f.Fo, self.L, f.L_min,
                         self.lo_cycle_amp, self.hi_cycle_amp, self.mat),
               coil_data("Inner Coil", s.x[5], f.Di, s.x[6], f.Fi, self.L, f.L_min,
                         self.lo_cycle_amp, self.hi_cycle_amp, self.mat)>>

\* the result object of scipy.optimize.root
OptimizeResult(success, xx) == [kind |-> "OptimizeResult", success |-> success, x |-> xx]

-----------------------------------------------------------------------------
(* The residual function and the post-processing on bounded inputs *)

\* small designs: design length 5, target rate 3, design load 3 or 4
ResidualConfigs ==
    {[material |-> "steel", axial_rate |-> 3, design_load |-> F, design_length |-> 5,
      radial_coil_gap |-> 1, max_compression |-> 1,
      lo_cycle_defln_amplitude |-> 1, hi_cycle_defln_amplitude |-> 1,
      end_condition |-> <<7, 10>>, compression_defln_reserve |-> 1,
      solid_stress_reserve |-> 1,
      estimated_solution |-> <<9, 1, 3, 6, 1, 4, 6>>] : F \in {3, 4}}

Iterates ==
    {<<OD, do, 3, L0o, 1, 4, L0i>> :
        OD \in {9, 10}, do \in {1, 2}, L0o \in 5..MaxFree, L0i \in 5..MaxFree}

LibraryValues ==
    [Lco : {1, 2}, Lci : {1, 2}, Sao : {2}, Sai : {2},
     Ro : 0..MaxRate, Ri : 0..MaxRate,
     solidStr_o : {1, 2}, solidStr_i : {1, 2}, limit_o : {3}, limit_i : {3},
     buck_defln : {1, 2, 3}]

IdleScript ==
    /\ pc = "idle" /\ script = "none" /\ nest_data = None /\ k = 0
    /\ files = {} /\ stdout = <<>> /\ fault = None /\ od = None /\ calls = 0

InitResidual ==
    /\ x \in Iterates
    /\ hc \in LibraryValues
    /\ \E nd \in ResidualConfigs : nest = TwoCoilSetLength(nd)
    /\ ev = None /\ post = None /\ sol = None /\ ret = None
    /\ IdleScript

scriptVars == <<pc, script, nest_data, k, files, stdout, fault, od, calls>>

\* a call error(x), as root makes it
EvalError ==
    /\ ev = None
    /\ ev' = error(nest, x, hc)
    /\ UNCHANGED <<x, hc, nest, post, sol, ret>>
    /\ UNCHANGED scriptVars

EvalSolution_warm_start ==
    /\ ret = None
    /\ \E ok \in BOOLEAN :
         /\ sol' = OptimizeResult(ok, x)
         /\ ret' = get_solution(nest, sol', hc)
         /\ post' = IF ok THEN solution_frame(nest, x, hc) ELSE None
    /\ nest' = [nest EXCEPT !.x0 = x]
    /\ UNCHANGED <<x, hc, ev>>
    /\ UNCHANGED scriptVars

\* a call get_solution() in which root returns the iterate x
EvalSolution ==
    /\ ret = None
    /\ \E ok \in BOOLEAN :
         /\ sol' = OptimizeResult(ok, x)
         /\ ret' = get_solution(nest, sol', hc)
         /\ post' = IF ok THEN solution_frame(nest, x, hc) ELSE None
    /\ UNCHANGED <<x, hc, nest, ev>>
    /\ UNCHANGED scriptVars

NextResidual == EvalError \/ EvalSolution

SpecResidual == InitResidual /\ [][NextResidual]_vars

-----------------------------------------------------------------------------
(* The scripts: CoilSpringDesign.py run as __main__, PR20_Primary_Spring.py *)

Scripts == {"CoilSpringDesign", "PR20_Primary_Spring"}

\* The configuration literal, the same values in both scripts.  Lengths are in
\* units of 0.1 mm (367.8 mm = 3678) and rates in N per 0.1 mm, forces in N,
\* stresses in MPa; end_condition 0.7 is the rational <<7, 10>>.
ScriptConfig ==
    [material |-> "prEN10089", axial_rate |-> 28, design_load |-> 34760,
     design_length |-> 3678, radial_coil_gap |-> 80, max_compression |-> 450,
     lo_cycle_defln_amplitude |-> 350, hi_cycle_defln_amplitude |-> 250,
     end_condition |-> <<7, 10>>, compression_defln_reserve |-> 200,
     solid_stress_reserve |-> 70,
     estimated_solution |-> <<2000, 300, 8, 5000, 200, 11, 5000>>]

\* np.arange(start, stop, step)
arange(start, stop, step) ==
    [i \in 1..((stop - start + step - 1) \div step) |-> start + (i - 1) * step]

\* the values of solid_stress_reserve each script sweeps
SweepValues(sc) ==
    IF sc = "CoilSpringDesign" THEN arange(10, 100, 10) ELSE arange(10, 120, 10)

\* the two files each script writes, outer then inner
FileNames(sc) ==
    IF sc = "CoilSpringDesign"
    THEN <<"test_Outer-coil.txt", "test_Inner-coil.txt">>
    ELSE <<"PR20_Outer-coil.txt", "PR20_Inner-coil.txt">>

\* what root() may return: converged or not, at one of two iterates
SolverIterates ==
    {<<2000, 300, 8, 5000, 200, 11, 5000>>, <<2050, 310, 8, 5100, 190, 11, 4900>>}

RootOutcomes == {OptimizeResult(ok, sx) : ok \in BOOLEAN, sx \in SolverIterates}

\* what hc.axial_rate may return for the two coils at the solution
SolverRates == {[Ro |-> 20, Ri |-> 8], [Ro |-> 18, Ri |-> 10]}

\* the dicts a caller of ODerror passes: the script's, and one with a zero target rate
CallerConfigs == {ScriptConfig, [ScriptConfig EXCEPT !.axial_rate = 0]}

CallerReserves == {50, 70}

CallerTargets == {2000}

assign_wrong_key(nd, ssr) == [nd EXCEPT !.compression_defln_reserve = ssr]

\* nest_data["solid_stress_reserve"] = solid_stress_reserve, on the dict itself
assign_reserve(nd, ssr) == [nd EXCEPT !.solid_stress_reserve = ssr]

\* reading .OD, .L0, .d or .coil_gap succeeds on a coil record only
is_coil(obj) == obj.kind = "coil_data"

Init ==
    /\ script \in Scripts
    /\ pc = "construct"
    /\ nest_data = ScriptConfig
    /\ nest = None /\ sol = None /\ ret = None
    /\ x = <<>> /\ hc = None /\ ev = None /\ post = None
    /\ k = 0 /\ files = {} /\ stdout = <<>> /\ fault = None
    /\ od = None /\ calls = 0

residualVars == <<x, hc, ev, post>>

\* nest = TwoCoilSetLength(**nest_data)
Construct ==
    /\ pc = "construct"
    /\ nest' = TwoCoilSetLength(nest_data)
    /\ pc' = "solve"
    /\ UNCHANGED <<sol, ret, script, nest_data, k, files, stdout, fault, od, calls>>
    /\ UNCHANGED residualVars

\* solved,OC_data,IC_data = nest.get_solution()
Solve ==
    /\ pc = "solve"
    /\ \E s \in RootOutcomes, h \in SolverRates :
         /\ sol' = s
         /\ ret' = get_solution(nest, s, h)
    /\ pc' = "report"
    /\ UNCHANGED <<nest, script, nest_data, k, files, stdout, fault, od, calls>>
    /\ UNCHANGED residualVars

Report_always_writes ==
    /\ pc = "report"
    /\ files' = files \cup {FileNames(script)[1], FileNames(script)[2]}
    /\ stdout' = Append(stdout, <<"\nsolution written">>)
    /\ pc' = "header"
    /\ UNCHANGED <<nest, sol, ret, script, nest_data, k, fault, od, calls>>
    /\ UNCHANGED residualVars

\* if solved: write both files; else: print the solver data
Report ==
    /\ pc = "report"
    /\ IF ret[1]
       THEN /\ files' = files \cup {FileNames(script)[1], FileNames(script)[2]}
            /\ stdout' = Append(stdout, <<"\nsolution written">>)
       ELSE /\ files' = files
            /\ stdout' = stdout \o << <<"No solution found. Solver data returned:">>,
                                      <<"print", ret[2]>> >>
    /\ pc' = "header"
    /\ UNCHANGED <<nest, sol, ret, script, nest_data, k, fault, od, calls>>
    /\ UNCHANGED residualVars

\* the header line of the sweep table; the for loop starts
Header ==
    /\ pc = "header"
    /\ stdout' = Append(stdout, <<"header">>)
    /\ k' = 1
    /\ pc' = "sweep"
    /\ UNCHANGED <<nest, sol, ret, script, nest_data, files, fault, od, calls>>
    /\ UNCHANGED residualVars

\* the loop body's first two statements: overwrite the field, construct
SweepConstruct ==
    /\ pc = "sweep"
    /\ k <= Len(SweepValues(script))
    /\ nest_data' = assign_reserve(nest_data, SweepValues(script)[k])
    /\ nest' = TwoCoilSetLength(nest_data')
    /\ pc' = "sweep_solve"
    /\ UNCHANGED <<sol, ret, script, k, files, stdout, fault, od, calls>>
    /\ UNCHANGED residualVars

\* the loop body's get_solution call
SweepSolve ==
    /\ pc = "sweep_solve"
    /\ \E s \in RootOutcomes, h \in SolverRates :
         /\ sol' = s
         /\ ret' = get_solution(nest, s, h)
    /\ pc' = "sweep_print"
    /\ UNCHANGED <<nest, script, nest_data, k, files, stdout, fault, od, calls>>
    /\ UNCHANGED residualVars

\* the loop body's last statements read attributes of OC_data and IC_data and
\* print a row; on an OptimizeResult or on None the read raises AttributeError
SweepPrint ==
    /\ pc = "sweep_print"
    /\ IF is_coil(ret[2]) /\ is_coil(ret[3])
       THEN /\ stdout' = Append(stdout, <<"row", SweepValues(script)[k]>>)
            /\ k' = k + 1
            /\ pc' = "sweep"
            /\ fault' = fault
       ELSE /\ fault' = [kind |-> "AttributeError", at |-> "sweep"]
            /\ pc' = "crashed"
            /\ UNCHANGED <<stdout, k>>
    /\ UNCHANGED <<nest, sol, ret, script, nest_data, files, od, calls>>
    /\ UNCHANGED residualVars

\* the range is exhausted: the script ends
SweepEnd ==
    /\ pc = "sweep"
    /\ k > Len(SweepValues(script))
    /\ pc' = "done"
    /\ UNCHANGED <<nest, sol, ret, script, nest_data, k, files, stdout, fault, od, calls>>
    /\ UNCHANGED residualVars

\* ODerror(solid_stress_reserve, ODtarget, nest_data), called by an importer of
\* PR20_Primary_Spring once the module has run.  od is the frame at the return:
\* arg is the caller's dict as passed, nest_data the same dict afterwards.
ODerror ==
    /\ script = "PR20_Primary_Spring"
    /\ pc = "done"
    /\ calls < MaxCalls
    /\ \E ssr \in CallerReserves, ODtarget \in CallerTargets, nd \in CallerConfigs,
          s \in RootOutcomes, h \in SolverRates :
         LET nd2 == assign_reserve(nd, ssr)
             n   == TwoCoilSetLength(nd2)
             r   == get_solution(n, s, h)
         IN  od' = [kind |-> "ODerror", arg |-> nd, nest_data |-> nd2,
                    solid_stress_reserve |-> ssr, nest |-> n, sol |-> s, ret |-> r,
                    result |-> IF r[1]
                               THEN [kind |-> "float", value |-> r[2].OD - ODtarget]
                               ELSE None]
    /\ calls' = calls + 1
    /\ UNCHANGED <<nest, sol, ret, pc, script, nest_data, k, files, stdout, fault>>
    /\ UNCHANGED residualVars

Next ==
    \/ Construct
    \/ Solve
    \/ Report
    \/ Header
    \/ SweepConstruct
    \/ SweepSolve
    \/ SweepPrint
    \/ SweepEnd
    \/ ODerror

Spec == Init /\ [][Next]_vars

-----------------------------------------------------------------------------
(* Claims about the residual function and the post-processing *)

ZeroVector == [i \in 1..7 |-> QZero]

\* C1: in error, if L0o > L0i then Fo1 = Ro*(L0o - L0i), Fi1 = 0 and L1 = L0i;
\* otherwise, equality included, Fo1 = 0, Fi1 = Ri*(L0i - L0o) and L1 = L0o.
C1_ErrorPreload ==
    ev # None =>
        IF x[4] > x[7]
        THEN ev.Fo1 = hc.Ro * (x[4] - x[7]) /\ ev.Fi1 = 0 /\ ev.L1 = x[7]
        ELSE ev.Fo1 = 0 /\ ev.Fi1 = hc.Ri * (x[7] - x[4]) /\ ev.L1 = x[4]

\* error was evaluated where the outer coil is the longer one and is preloaded
C1_Witness == ev # None /\ x[4] > x[7] /\ ev.Fo1 > 0 /\ ev.Fi1 = 0 /\ ev.L1 = x[7]

\* the seven design constraints at x, as the claim C2 words them
DesignConstraints ==
    LET target_min == nest.L - nest.max_comp - nest.comp_res
        rate == hc.Ro + hc.Ri
    IN  /\ hc.Ro + hc.Ri = nest.R
        /\ hc.Lco + hc.Sao = target_min
        /\ hc.Lci + hc.Sai = target_min
        \* L1 - (F - Fo1 - Fi1)/(Ro + Ri) = L, a quotient that must exist
        /\ rate # 0
        /\ (ev.L1 - nest.L) * rate = nest.F - ev.Fo1 - ev.Fi1
        /\ hc.limit_o - hc.solidStr_o = nest.solid_str_res
        /\ hc.limit_i - hc.solidStr_i = nest.solid_str_res
        /\ x[7] - hc.buck_defln = nest.L - nest.max_comp

\* C2: error(x) is the all-zero 7-vector exactly when the seven design
\* constraints hold at x.
C2_ZeroIffConstraints ==
    ev # None => ((ev.v = ZeroVector) <=> DesignConstraints)

\* error was evaluated at a valid design
C2_Witness == ev # None /\ ev.v = ZeroVector /\ DesignConstraints

\* C7: the post-processing of get_solution computes the same (Fo1, Fi1, L1) as
\* error does, equal free lengths included, and both derive Do = OD - do and
\* Di = Do - do - 2*coil_gap - di.
C7_SameBranch ==
    (ev # None /\ post # None) =>
        /\ <<post.Fo1, post.Fi1, post.L1>> = <<ev.Fo1, ev.Fi1, ev.L1>>
        /\ ev.Do = x[1] - x[2] /\ post.Do = x[1] - x[2]
        /\ ev.Di = (x[1] - x[2]) - x[2] - 2 * nest.coil_gap - x[5]
        /\ post.Di = (x[1] - x[2]) - x[2] - 2 * nest.coil_gap - x[5]

\* both were evaluated where the inner coil is the longer one and is preloaded
C7_Witness == ev # None /\ post # None /\ x[7] > x[4] /\ post.Fi1 > 0

\* C10: where Ro + Ri # 0 and residual 4 is zero, the loads of the two coil
\* records get_solution builds sum to the design load F.
C10_ForceBalance ==
    (ev # None /\ ret # None /\ ret[1] /\ hc.Ro + hc.Ri # 0 /\ ev.v[4] = QZero) =>
        ret[2].F + ret[3].F = nest.F

\* a solved nest with a preloaded outer coil, compressed below its contact length
C10_Witness ==
    /\ ev # None /\ ret # None /\ ret[1] /\ hc.Ro + hc.Ri # 0 /\ ev.v[4] = QZero
    /\ x[4] > x[7] /\ post.Fo1 > 0 /\ post.L1 > nest.L

-----------------------------------------------------------------------------
(* Claims about get_solution's return value and the scripts *)

\* C3: get_solution does not raise on non-convergence: when root reports
\* success = false it returns (False, the solver result, None) and builds no coil
\* record; when root reports success = true it returns (True, outer coil record,
\* inner coil record), outer second and inner third.
C3_ReturnShape ==
    /\ ret # None =>
         IF sol.success
         THEN /\ ret[1] = TRUE
              /\ is_coil(ret[2]) /\ ret[2].label = "Outer Coil" /\ ret[2].d = sol.x[2]
              /\ is_coil(ret[3]) /\ ret[3].label = "Inner Coil" /\ ret[3].d = sol.x[5]
         ELSE ret = <<FALSE, sol, None>>
    /\ fault # None => fault.at # "get_solution"

\* get_solution has returned from a solve that did not converge
C3_Witness == ret # None /\ ~sol.success /\ ret[1] = FALSE /\ ret[3] = None

\* C4 as stated: a solve that returns solved = False leads neither to an
\* exception nor to an undefined return value in the code that consumes it.
C4_NoUnhandledFault ==
    /\ fault = None
    /\ od # None => od.result # None

\* C5: the two per-coil files are written only after a solve that returned
\* solved = True, and then both are written; after solved = False neither is
\* written and the solver diagnostic is printed instead.
C5_FilesOnlyOnSuccess ==
    [][ IF pc = "report"
        THEN IF ret[1]
             THEN files' = {FileNames(script)[1], FileNames(script)[2]}
             ELSE /\ files' = files
                  /\ stdout'[Len(stdout')] = <<"print", sol>>
        ELSE files' = files ]_vars

\* the script has written both files after a solve that converged
C5_Witness ==
    /\ pc = "header" /\ ret[1]
    /\ files = {FileNames(script)[1], FileNames(script)[2]}

\* C6 as stated: a configuration with a non-positive target rate is rejected
\* before the root finder is invoked.
C6_FailFast ==
    od # None => (od.nest.R <= 0 => od.sol = None)

C9_NoSideEffects ==
    [][ /\ nest' = nest
        /\ x' = x
        /\ ev' # None => ev'.x = x ]_vars

\* error and get_solution have both been called, root returning an iterate
\* other than the initial guess
C9_Witness == ev # None /\ ret # None /\ ret[1] /\ x # nest.x0

====
